---- MODULE Spec2Model ----
(***************************************************************************)
(* A model of the otodom scraper: the pagination drivers get_category and  *)
(* get_category_json (otodom/category.py), the page parser                 *)
(* parse_category_content, the field extractors parse_category_offer and   *)
(* parse_json_offer (otodom/offer.py) and the region resolver and URL      *)
(* builders of otodom/utils.py.                                            *)
(*                                                                         *)
(* Conventions.  A Python string is a sequence of atoms (one-character     *)
(* strings, or longer strings that no operation of the code splits).  A    *)
(* dict is a function whose domain is its key set; the empty dict {} is    *)
(* EmptyDict.  A float is Float(h), h the value in hundredths; where a     *)
(* field holds values of several Python types an int is PyInt(n), a string *)
(* Str(s) and the null value None.  A call that may raise yields an        *)
(* outcome: Ret(v) when it returns v, Raise(e) when exception e leaves it. *)
(***************************************************************************)
EXTENDS Integers, Sequences, FiniteSets, TLC

VARIABLES
    call,           \* which function runs: a driver ("get_category",
                    \* "get_category_json"), a parser or a function of utils.py
    pc,             \* position in the running function
    args,           \* arguments of the call
    region_data,    \* get_category: region_data
    real_num_of_offers, \* get_category: real_num_of_offers
    limit,          \* get_category: limit, after line 136 the effective limit
    max_offers,     \* get_category: max_offers
    offers,         \* get_category: offers (accumulated count)
    page,           \* get_category: page
    offers_parsed,  \* get_category: offers_parsed
    parsed_content, \* get_category: parsed_content
    content,        \* get_category: content / json_res of the page just fetched;
                    \* get_json_url: the page _get_json_identifier fetched
    fetched,        \* numbers of the listing pages requested, in order
    result,         \* outcome of the call once it has ended, NoResult before
    lookups,        \* autosuggest requests sent so far
    result_again,   \* outcome of a second call with the same arguments
    resolutions,    \* calls of the region resolver made by the scrape call
    count_queries,  \* bodies of the count queries sent by the scrape call
    page_results    \* the list parsed from each page, in the order parsed

vars == <<call, pc, args, region_data, real_num_of_offers, limit, max_offers, offers, page,
          offers_parsed, parsed_content, content, fetched, result, lookups,
          result_again, resolutions, count_queries, page_results>>

LogVars == <<resolutions, count_queries, page_results>>

(***************************************************************************)
(* Bounds of the model.                                                    *)
(***************************************************************************)
MaxPage == 3        \* the model follows a call up to this many page fetches
MaxLinks == 2       \* listing-item links per container, items per JSON page
MaxNodes == 2       \* top-level elements of a page given to the page parser
MaxParagraphs == 3  \* <p> elements in the article of an offer fragment
MaxFilters == 2     \* entries of the filters given to the URL builders

(***************************************************************************)
(* Program constants.                                                      *)
(***************************************************************************)
HardCap == 12000
BASE_URL == "https://www.otodom.pl"

(***************************************************************************)
(* Python values.                                                          *)
(***************************************************************************)
EmptyDict == [k \in {} |-> 0]
Float(h) == [float |-> h]
PyInt(n) == [int |-> n]
Str(s) == [str |-> s]
None == [none |-> TRUE]
Ret(v) == [raised |-> FALSE, value |-> v]
Raise(e) == [raised |-> TRUE, exc |-> e]
NoResult == [pending |-> TRUE]

Min(a, b) == IF a <= b THEN a ELSE b

Digits == {"0", "1", "2", "3", "4", "5", "6", "7", "8", "9"}
DigitVal(c) ==
    CASE c = "0" -> 0 [] c = "1" -> 1 [] c = "2" -> 2 [] c = "3" -> 3
      [] c = "4" -> 4 [] c = "5" -> 5 [] c = "6" -> 6 [] c = "7" -> 7
      [] c = "8" -> 8 [] c = "9" -> 9

RECURSIVE DigitsToInt(_)
DigitsToInt(s) ==
    IF s = <<>> THEN 0
    ELSE 10 * DigitsToInt(SubSeq(s, 1, Len(s) - 1)) + DigitVal(s[Len(s)])

\* index of the first occurrence of atom c in s, 0 when there is none
RECURSIVE IndexOf(_, _, _)
IndexOf(s, c, i) ==
    IF i > Len(s) THEN 0
    ELSE IF s[i] = c THEN i
    ELSE IndexOf(s, c, i + 1)

\* s.split(c)
RECURSIVE Split(_, _)
Split(s, c) ==
    IF IndexOf(s, c, 1) = 0 THEN <<s>>
    ELSE <<SubSeq(s, 1, IndexOf(s, c, 1) - 1)>>
         \o Split(SubSeq(s, IndexOf(s, c, 1) + 1, Len(s)), c)

\* s.split(c)[0]
SplitFirst(s, c) ==
    IF IndexOf(s, c, 1) = 0 THEN s ELSE SubSeq(s, 1, IndexOf(s, c, 1) - 1)

\* s.split(c)[-1]
RECURSIVE SplitLast(_, _)
SplitLast(s, c) ==
    IF IndexOf(s, c, 1) = 0 THEN s
    ELSE SplitLast(SubSeq(s, IndexOf(s, c, 1) + 1, Len(s)), c)

\* s.replace(a, b) for one-atom a and b
ReplaceAtom(s, a, b) == [i \in 1..Len(s) |-> IF s[i] = a THEN b ELSE s[i]]

RECURSIVE Concat(_)
Concat(ss) == IF ss = <<>> THEN <<>> ELSE Head(ss) \o Concat(Tail(ss))

(***************************************************************************)
(* utils.py: number parsing.                                               *)
(***************************************************************************)
\* float(s): the value in hundredths (further decimals dropped), or the
\* ValueError float() raises on a string that is no number
PyFloat(s) ==
    LET dot == IndexOf(s, ".", 1)
        ip == IF dot = 0 THEN s ELSE SubSeq(s, 1, dot - 1)
        fp == IF dot = 0 THEN <<>> ELSE SubSeq(s, dot + 1, Len(s))
        ok == /\ \A i \in 1..Len(ip) : ip[i] \in Digits
              /\ \A i \in 1..Len(fp) : fp[i] \in Digits
              /\ Len(ip) + Len(fp) > 0
        f2 == SubSeq(fp \o <<"0", "0">>, 1, 2)
    IN  IF ok THEN Ret(Float(100 * DigitsToInt(ip) + DigitsToInt(f2)))
        ELSE Raise("ValueError")

get_number_from_string(s, default) ==
    LET r == PyFloat(ReplaceAtom(s, ",", "."))
    IN  IF r.raised THEN default ELSE r.value

_float(number, default) == get_number_from_string(number, default)

price_to_float(price) ==
    _float(SelectSeq(price, LAMBDA d : d \in Digits \/ d \in {",", "."}),
           Float(0))

\* round(x) of a float: to the nearest integer, ties to the even one
PyRound(x) ==
    LET h == x.float
        q == h \div 100
        r == h % 100
    IN  IF r < 50 THEN q
        ELSE IF r > 50 THEN q + 1
        ELSE IF q % 2 = 0 THEN q ELSE q + 1

\* a / b of two floats, in hundredths
PyDiv(a, b) == Float((a.float * 100) \div b.float)

(***************************************************************************)
(* offer.py: parse_category_offer.  An offer fragment is the markup of one *)
(* listing-item link:                                                      *)
(*   [has_href, href, has_img, img_src, has_article, paragraphs]           *)
(* with paragraphs the <p> elements of its <article>, each                 *)
(*   [text, spans], spans the texts of its <span> elements.                *)
(***************************************************************************)
parse_category_offer(offer_markup) ==
    IF ~offer_markup.has_href THEN Raise("KeyError")
    ELSE IF offer_markup.href = <<>> THEN Ret(EmptyDict)
    ELSE IF ~offer_markup.has_article THEN Raise("AttributeError")
    ELSE IF Len(offer_markup.paragraphs) < 2 THEN Raise("IndexError")
    ELSE
    LET url == offer_markup.href
        data == offer_markup.paragraphs
        image == IF offer_markup.has_img
                 THEN SplitFirst(offer_markup.img_src, ";")
                 ELSE <<>>
        price == price_to_float(data[2].text)
        has_details == Len(data) >= 3 /\ Len(data[3].spans) > 2
        details == data[3].spans
        rooms == IF has_details
                 THEN SelectSeq(details[1], LAMBDA d : d \in Digits)
                 ELSE <<>>
        size == IF has_details THEN price_to_float(details[2]) ELSE Str(<<>>)
        per_m2 == IF has_details THEN price_to_float(details[3]) ELSE Str(<<>>)
        truthy == has_details /\ size.float # 0
    IN  Ret([detail_url |-> <<BASE_URL>> \o url,
             offer_id |-> SplitLast(url, "-"),
             image |-> image,
             price |-> price,
             price_int |-> PyRound(price),
             size |-> size,
             rooms |-> rooms,
             price_per_m2 |-> per_m2,
             calculated_per_m2 |->
                 IF truthy THEN PyDiv(price, size) ELSE PyInt(-1)])

(***************************************************************************)
(* category.py: the page parser.  A page is                                *)
(*   [no_results, nodes]                                                   *)
(* no_results: the page holds a div with data-cy "no-search-results";      *)
(* nodes: its top-level elements in document order, each                   *)
(*   [listing, links]                                                      *)
(* listing: the element is a div with data-cy "search.listing"; links: the *)
(* listing-item links inside it, in document order.                        *)
(***************************************************************************)
\* [parse_category_offer(str(offer)) for offer in offers]: the list, or the
\* first exception raised
RECURSIVE ParseOffers(_)
ParseOffers(found) ==
    IF found = <<>> THEN Ret(<<>>)
    ELSE LET h == parse_category_offer(Head(found))
         IN  IF h.raised THEN h
             ELSE LET t == ParseOffers(Tail(found))
                  IN  IF t.raised THEN t ELSE Ret(<<h.value>> \o t.value)

\* findAll("a", {"data-cy": "listing-item-link"}) over a sequence of nodes
LinksOf(nodes) == Concat([i \in 1..Len(nodes) |-> nodes[i].links])

\* parse_category_content with the bug of searching the whole page whenever
\* promoted offers are asked for
parse_category_content_WholePage(markup, get_promoted) ==
    LET search_listings == SelectSeq(markup.nodes, LAMBDA n : n.listing)
        offers_found ==
            IF get_promoted THEN LinksOf(markup.nodes)
            ELSE IF Len(search_listings) > 1 THEN search_listings[2].links
            ELSE search_listings[1].links
    IN  IF Len(search_listings) = 0 THEN Ret(<<>>)
        ELSE ParseOffers(offers_found)

\* parse_category_content with the bug of taking the first of several
\* containers when promoted offers are not asked for
parse_category_content_FirstContainer(markup, get_promoted) ==
    LET search_listings == SelectSeq(markup.nodes, LAMBDA n : n.listing)
        offers_found ==
            IF Len(search_listings) > 1
            THEN IF ~get_promoted
                 THEN search_listings[1].links
                 ELSE LinksOf(markup.nodes)
            ELSE search_listings[1].links
    IN  IF Len(search_listings) = 0 THEN Ret(<<>>)
        ELSE ParseOffers(offers_found)

parse_category_content(markup, get_promoted) ==
    LET search_listings == SelectSeq(markup.nodes, LAMBDA n : n.listing)
        offers_found ==
            IF Len(search_listings) > 1
            THEN IF ~get_promoted
                 THEN search_listings[2].links
                 ELSE LinksOf(markup.nodes)
            ELSE search_listings[1].links
    IN  IF Len(search_listings) = 0 THEN Ret(<<>>)
        ELSE ParseOffers(offers_found)

was_category_search_successful(markup) == ~markup.no_results

(***************************************************************************)
(* utils.py: the region resolver.  api_response is the decoded body of the *)
(* autosuggest lookup, a list of entries                                   *)
(*   [level, name, id, text, district_id, region_id, street_id].           *)
(***************************************************************************)
\* scrapper_helpers.normalize_text on the atoms the model uses: lower case,
\* no diacritics, "-" for a space
NormalizeAtom(c) ==
    CASE c = "W" -> "w" [] c = "M" -> "m" [] c = "S" -> "s" [] c = " " -> "-"
      [] OTHER -> c

normalize_text(text) == [i \in 1..Len(text) |-> NormalizeAtom(text[i])]

\* index of the first i with s[i] = a and s[i+1] = b, 0 when there is none
RECURSIVE IndexOfPair(_, _, _, _)
IndexOfPair(s, a, b, i) ==
    IF i + 1 > Len(s) THEN 0
    ELSE IF s[i] = a /\ s[i + 1] = b THEN i
    ELSE IndexOfPair(s, a, b, i + 1)

\* s.split(".s")[0]
SplitFirstDotS(s) ==
    IF IndexOfPair(s, ".", "s", 1) = 0 THEN s
    ELSE SubSeq(s, 1, IndexOfPair(s, ".", "s", 1) - 1)

\* lines 47-50: the requests get_region_from_autosuggest sends, none for the
\* empty region text
AutosuggestRequests(region_part) == IF region_part = <<>> THEN 0 ELSE 1

get_region_from_autosuggest(region_part, api_response) ==
    IF region_part = <<>> THEN Ret(EmptyDict)
    ELSE IF Len(api_response) = 0 THEN Raise("IndexError")
    ELSE
    LET response == api_response[1]
        region_type == response.level
        text == SplitFirst(
                    SelectSeq(response.text,
                              LAMBDA c : c \notin {"<strong>", "</strong>"}),
                    ", ")
    IN  CASE region_type = "CITY" ->
               Ret([city |-> response.name,
                    id |-> ReplaceAtom(response.id, ".", "/")])
          [] region_type = "DISTRICT" ->
               Ret([city |-> response.name,
                    districtId |-> response.district_id,
                    id |-> ReplaceAtom(response.id, ".", "/")])
          [] region_type = "REGION" ->
               Ret([voivodeship |-> normalize_text(text),
                    regionId |-> response.region_id,
                    id |-> ReplaceAtom(response.id, ".", "/")])
          [] region_type = "STREET" ->
               Ret([city |-> normalize_text(SplitFirst(text, ",")),
                    streetId |-> response.street_id,
                    id |-> ReplaceAtom(SplitFirstDotS(response.id), ".", "/")])
          [] OTHER -> Ret(EmptyDict)

(***************************************************************************)
(* utils.py: the URL builders.  filters is the keyword dict of the call in *)
(* insertion order, a sequence of entries [key, is_list, value]: value is  *)
(* a string, or for is_list a sequence of strings.                         *)
(***************************************************************************)
\* sep.join(parts)
RECURSIVE Join(_, _)
Join(sep, parts) ==
    IF parts = <<>> THEN <<>>
    ELSE IF Len(parts) = 1 THEN parts[1]
    ELSE parts[1] \o sep \o Join(sep, Tail(parts))

\* urllib.parse.quote on one atom: letters, digits and "_.-~/" are kept
QuoteAtom(c) ==
    CASE c = "[" -> "%5B" [] c = "]" -> "%5D" [] c = " " -> "%20"
      [] c = "&" -> "%26" [] c = "=" -> "%3D" [] c = "," -> "%2C"
      [] OTHER -> c

quote(s) == [i \in 1..Len(s) |-> QuoteAtom(s[i])]

HasKey(filters, key) == \E i \in 1..Len(filters) : filters[i].key = key

GetKey(filters, key) ==
    filters[CHOOSE i \in 1..Len(filters) : filters[i].key = key].value

\* filters[key] = value on a dict: in place when the key is there, else appended
SetKey(filters, key, value) ==
    IF HasKey(filters, key)
    THEN [i \in 1..Len(filters) |->
             IF filters[i].key = key
             THEN [key |-> key, is_list |-> FALSE, value |-> value]
             ELSE filters[i]]
    ELSE Append(filters, [key |-> key, is_list |-> FALSE, value |-> value])

REGION_DATA_KEYS == {"city", "voivodeship", "district_id", "street_id"}

\* the dict get_region_from_filters builds: the region keys the filters hold
get_region_from_filters(filters) ==
    [k \in {r \in REGION_DATA_KEYS : HasKey(filters, <<r>>)} |->
        GetKey(filters, <<k>>)]

\* value.split(): the words between the runs of spaces
RECURSIVE SplitWords(_)
SplitWords(value) ==
    IF value = <<>> THEN <<>>
    ELSE IF Head(value) = " " THEN SplitWords(Tail(value))
    ELSE LET word == SplitFirst(value, " ")
         IN  <<word>> \o SplitWords(SubSeq(value, Len(word) + 1, Len(value)))

\* "-".join(value.split())
SlugOf(value) == Join(<<"-">>, SplitWords(value))

\* lines 130-134 of get_url: the ids of the region go into the local filters
FiltersWithRegion(region_data_arg, filters) ==
    LET f1 == IF "districtId" \in DOMAIN region_data_arg
              THEN SetKey(filters, <<"districtId">>, region_data_arg.districtId)
              ELSE filters
    IN  IF "streetId" \in DOMAIN region_data_arg
        THEN SetKey(f1, <<"streetId">>, region_data_arg.streetId)
        ELSE f1

\* CallerFilters with the bug of get_url working on the caller's dict
CallerFilters_Shared(filters_arg, callee_filters) == callee_filters

\* the filters dict of the caller after get_url(..., **filters) or
\* get_json_url(..., **filters) has run: the keywords are collected into a
\* dict of the callee's own (callee_filters, what lines 130-134 make of
\* it), so the caller's dict is as it was
CallerFilters(filters_arg, callee_filters) == filters_arg

\* building type and description fragment segments of the path
PathSuffix(filters) ==
    (IF HasKey(filters, <<"building_type">>)
     THEN <<"/">> \o GetKey(filters, <<"building_type">>) ELSE <<>>)
    \o
    (IF HasKey(filters, <<"description_fragment">>)
     THEN <<"/q-">> \o SlugOf(GetKey(filters, <<"description_fragment">>))
     ELSE <<>>)

\* QueryOf with the bug of percent-encoding the values as well
QueryOf_QuotedValues(limit_arg, page_arg, filters) ==
    LET filter_list ==
            [i \in 1..Len(filters) |->
                IF filters[i].is_list
                THEN filters[i].key \o <<"=", "[">>
                     \o quote(Join(<<",">>, filters[i].value)) \o <<"]">>
                ELSE quote(filters[i].key) \o <<"=">> \o quote(filters[i].value)]
    IN  <<"?", "limit", "=">> \o limit_arg \o <<"&", "page", "=">> \o page_arg
        \o <<"&">> \o Join(<<"&">>, filter_list)

\* QueryOf with the bug of no "&" between the page number and the filters
QueryOf_NoSeparator(limit_arg, page_arg, filters) ==
    LET filter_list ==
            [i \in 1..Len(filters) |->
                IF filters[i].is_list
                THEN filters[i].key \o <<"=", "[">>
                     \o Join(<<",">>, filters[i].value) \o <<"]">>
                ELSE quote(filters[i].key) \o <<"=">> \o filters[i].value]
    IN  <<"?", "limit", "=">> \o limit_arg \o <<"&", "page", "=">> \o page_arg
        \o Join(<<"&">>, filter_list)

\* the query string both builders append
QueryOf(limit_arg, page_arg, filters) ==
    LET filter_list ==
            [i \in 1..Len(filters) |->
                IF filters[i].is_list
                THEN filters[i].key \o <<"=", "[">>
                     \o Join(<<",">>, filters[i].value) \o <<"]">>
                ELSE quote(filters[i].key) \o <<"=">> \o filters[i].value]
    IN  <<"?", "limit", "=">> \o limit_arg \o <<"&", "page", "=">> \o page_arg
        \o <<"&">> \o Join(<<"&">>, filter_list)

get_url(main_category, detail_category, region_data_arg, limit_arg, page_arg, filters_arg) ==
    LET filters == FiltersWithRegion(region_data_arg, filters_arg)
    IN  IF "id" \notin DOMAIN region_data_arg THEN Raise("KeyError")
        ELSE Ret(Join(<<"/">>, <<<<BASE_URL>>, <<"pl">>, <<"oferty">>,
                                 main_category, detail_category,
                                 region_data_arg.id>>)
                 \o PathSuffix(filters)
                 \o QueryOf(limit_arg, page_arg, filters))

\* the page _get_json_identifier fetches is [has_script, src]: whether a
\* script element references buildManifest.js, and its src attribute
_get_json_identifier(main_category, detail_category, region_data_arg, filters_arg, short_page) ==
    LET short_url == get_url(main_category, detail_category, region_data_arg,
                             <<"1">>, <<"1">>, filters_arg)
        parts == Len(SelectSeq(short_page.src, LAMBDA c : c = "/")) + 1
    IN  IF short_url.raised THEN short_url
        ELSE IF ~short_page.has_script THEN Raise("AttributeError")
        ELSE IF parts < 2 THEN Ret(None)
        ELSE Ret(Str(SplitLast(SubSeq(short_page.src, 1,
                        Len(short_page.src)
                        - Len(SplitLast(short_page.src, "/")) - 1), "/")))

get_json_url(main_category, detail_category, region_data_arg, limit_arg, page_arg, filters_arg, short_page) ==
    LET identifier == _get_json_identifier(main_category, detail_category,
                                           region_data_arg, filters_arg,
                                           short_page)
    IN  IF identifier.raised THEN identifier
        ELSE IF identifier.value = None \/ identifier.value = Str(<<>>)
        THEN Ret(None)
        ELSE IF "id" \notin DOMAIN region_data_arg THEN Raise("KeyError")
        ELSE Ret(Str(
                 Join(<<"/">>, <<<<BASE_URL>>, <<"_next">>, <<"data">>,
                                 identifier.value.str, <<"pl">>, <<"oferty">>,
                                 main_category, detail_category,
                                 region_data_arg.id \o <<".json">>>>)
                 \o PathSuffix(filters_arg)
                 \o QueryOf(limit_arg, page_arg, filters_arg)))

(***************************************************************************)
(* utils.py: the count query of get_number_of_offers.                      *)
(***************************************************************************)
\* _main_category_translate.get(key, default)
_main_category_translate(key, default) ==
    CASE key = <<"mieszkanie">> -> <<"FLAT">>
      [] key = <<"dom">> -> <<"HOUSE">>
      [] key = <<"pokoj">> -> <<"ROOM">>
      [] key = <<"dzialka">> -> <<"TERRAIN">>
      [] key = <<"lokal">> -> <<"COMMERCIALPROPERTY">>
      [] key = <<"haleimagazyny">> -> <<"HALL">>
      [] key = <<"garaz">> -> <<"GARAGE">>
      [] OTHER -> default

\* d.update(filters): an entry of filters replaces the one of its key, or
\* is appended
RECURSIVE Update(_, _)
Update(d, filters) ==
    IF filters = <<>> THEN d
    ELSE Update(IF HasKey(d, Head(filters).key)
                THEN [i \in 1..Len(d) |->
                         IF d[i].key = Head(filters).key
                         THEN Head(filters) ELSE d[i]]
                ELSE Append(d, Head(filters)),
                Tail(filters))

\* lines 274-298: the variables of the body get_number_of_offers posts
CountAdsBody(main_category, detail_category, region_data_arg, filters_arg) ==
    LET filter_attributes ==
            Update(<<[key |-> <<"estate">>, is_list |-> FALSE,
                      value |-> _main_category_translate(main_category,
                                                          <<"FLAT">>)],
                     [key |-> <<"transaction">>, is_list |-> FALSE,
                      value |-> IF detail_category = <<"wynajem">>
                                THEN <<"RENT">> ELSE <<"SELL">>]>>,
                   filters_arg)
        region_attrs ==
            Split(IF "id" \in DOMAIN region_data_arg
                  THEN region_data_arg.id ELSE <<>>, "/")
        geo_attributes ==
            [regionId |-> Str(region_attrs[1]),
             subregionId |-> IF Len(region_attrs) > 1
                             THEN Str(region_attrs[2]) ELSE PyInt(0),
             cityId |-> IF Len(region_attrs) > 2
                        THEN Str(region_attrs[3]) ELSE PyInt(0),
             streetId |-> IF "streetId" \in DOMAIN region_data_arg
                          THEN Str(region_data_arg.streetId) ELSE PyInt(0),
             districtId |-> IF "districtId" \in DOMAIN region_data_arg
                            THEN Str(region_data_arg.districtId) ELSE PyInt(0)]
    IN  [filterAttributes |-> filter_attributes,
         byGeoAttributes |-> geo_attributes]

(***************************************************************************)
(* offer.py: parse_json_offer.  offer is one item of the JSON endpoint, a  *)
(* dict; a key the item lacks is outside its domain, a JSON null is None,  *)
(* a JSON number is Float(h) and a JSON string is Str(s), except the       *)
(* image URL and the enumerated tokens, which are plain strings.           *)
(***************************************************************************)
_rooms_translate(token) ==
    CASE token = "ONE" -> 1 [] token = "TWO" -> 2 [] token = "THREE" -> 3
      [] token = "FOUR" -> 4 [] token = "FIVE" -> 5 [] token = "SIX" -> 6
      [] token = "SEVEN" -> 7 [] token = "EIGHT" -> 8 [] token = "NINE" -> 9
      [] token = "TEN" -> 10 [] OTHER -> 0

\* lines 24-27: image_url, or the exception that leaves the try statement
JsonImage(offer) ==
    IF "images" \notin DOMAIN offer THEN Raise("KeyError")
    ELSE IF offer.images = None THEN Raise("TypeError")
    ELSE IF Len(offer.images.list) = 0 THEN Ret("")
    ELSE IF "large" \notin DOMAIN offer.images.list[1] THEN Raise("KeyError")
    ELSE Ret(offer.images.list[1].large)

\* lines 29-39 and 41-50: the price read from offer[key]
JsonPrice(offer, key) ==
    IF key \notin DOMAIN offer THEN Raise("KeyError")
    ELSE IF offer[key] = None THEN Ret(Float(-100))
    ELSE IF "currency" \notin DOMAIN offer[key] THEN Raise("KeyError")
    ELSE IF offer[key].currency # "PLN" THEN Ret(Float(-100))
    ELSE IF "value" \notin DOMAIN offer[key] THEN Raise("KeyError")
    ELSE IF "str" \in DOMAIN offer[key].value
         THEN Ret(price_to_float(offer[key].value.str))
         ELSE Ret(offer[key].value)

parse_json_offer(offer) ==
    LET slug_id == IF "slug" \in DOMAIN offer THEN offer.slug ELSE <<>>
        image_url == JsonImage(offer)
        price == JsonPrice(offer, "totalPrice")
        price_per_m2 == JsonPrice(offer, "pricePerSquareMeter")
        size == IF "areaInSquareMeters" \in DOMAIN offer
                THEN offer.areaInSquareMeters ELSE PyInt(0)
        truthy == "float" \in DOMAIN size /\ size.float # 0
    IN  IF image_url.raised THEN image_url
        ELSE IF price.raised THEN price
        ELSE IF price_per_m2.raised THEN price_per_m2
        ELSE IF "roomsNumber" \notin DOMAIN offer THEN Raise("KeyError")
        ELSE IF "id" \notin DOMAIN offer THEN Raise("KeyError")
        ELSE IF price.value = None THEN Raise("TypeError")
        ELSE Ret((image_url.value :> image_url.value) @@
                 [detail_url |-> Join(<<"/">>, <<<<BASE_URL>>, <<"pl">>,
                                                 <<"oferta">>, slug_id>>),
                  offer_id |-> SplitLast(slug_id, "-"),
                  int_id |-> offer.id,
                  price |-> price.value,
                  price_int |-> PyRound(price.value),
                  size |-> size,
                  rooms |-> _rooms_translate(offer.roomsNumber),
                  rooms_label |-> offer.roomsNumber,
                  price_per_m2 |-> price_per_m2.value,
                  calculated_per_m2 |->
                      IF truthy THEN PyDiv(price.value, size)
                      ELSE Float(-100),
                  offer_info |-> offer])

(***************************************************************************)
(* Inputs: offer fragments, pages and responses the model draws from.      *)
(***************************************************************************)
Paragraph(text, spans) == [text |-> text, spans |-> spans]

PriceText == <<"4", " ", "5", "0", "0", " ", "z">>
DetailSpans == <<<<"2", " ", "p">>, <<"4", "5", ",", "5", " ", "m">>,
                 <<"9", "8", " ", "z">>>>

\* a well-formed listing-item link of the offer numbered n
GoodFrag(n) ==
    [has_href |-> TRUE,
     href |-> <<"/pl/oferta/mieszkanie", "-", "ID", ToString(n)>>,
     has_img |-> TRUE, img_src |-> <<"img", ToString(n), ";", "s=1">>,
     has_article |-> TRUE,
     paragraphs |-> <<Paragraph(<<"ul", ".">>, <<>>),
                      Paragraph(PriceText, <<>>),
                      Paragraph(<<>>, DetailSpans)>>]

NoHrefFrag == [GoodFrag(0) EXCEPT !.has_href = FALSE, !.href = <<>>]
EmptyHrefFrag == [GoodFrag(0) EXCEPT !.href = <<>>]
NoArticleFrag == [GoodFrag(0) EXCEPT !.has_article = FALSE, !.paragraphs = <<>>]
OneParagraphFrag ==
    [GoodFrag(0) EXCEPT !.paragraphs = <<Paragraph(PriceText, <<>>)>>]

MalformedFrags == {NoHrefFrag, EmptyHrefFrag, NoArticleFrag, OneParagraphFrag}

\* a fragment on which parse_category_offer returns a full record
WellFormed(frag) ==
    /\ frag.has_href /\ frag.href # <<>>
    /\ frag.has_article /\ Len(frag.paragraphs) >= 2

\* the link sequences of a container: up to MaxLinks links, the good ones
\* numbered from base, at most one of them malformed
LinkSeqs(base) ==
    UNION {
        {[i \in 1..k |-> GoodFrag(base + i)]}
        \cup
        {[i \in 1..k |-> IF i = j THEN bad ELSE GoodFrag(base + i)] :
            j \in 1..k, bad \in MalformedFrags}
      : k \in 0..MaxLinks}

\* the elements a page can hold at position pos
NodesAt(pos) ==
    {[listing |-> TRUE, links |-> ls] : ls \in LinkSeqs(10 * pos)}
    \cup
    {[listing |-> FALSE, links |-> ls] :
        ls \in {<<>>, <<GoodFrag(10 * pos + 9)>>}}

RECURSIVE NodeSeqs(_)
NodeSeqs(n) ==
    IF n = 0 THEN {<<>>}
    ELSE {Append(s, nd) : s \in NodeSeqs(n - 1), nd \in NodesAt(n)}

\* the pages given to parse_category_content
ContentPages ==
    {[no_results |-> FALSE, nodes |-> ns] :
        ns \in UNION {NodeSeqs(n) : n \in 0..MaxNodes}}

\* the offer fragments given to parse_category_offer
RECURSIVE ParagraphSeqs(_)
ParagraphSeqs(n) ==
    IF n = 0 THEN {<<>>}
    ELSE {Append(s, p) : s \in ParagraphSeqs(n - 1),
                         p \in {Paragraph(PriceText, <<>>),
                                Paragraph(<<"b", "r", "a", "k">>, DetailSpans),
                                Paragraph(<<"1", ",", "5">>,
                                          SubSeq(DetailSpans, 1, 2))}}

OfferFrags ==
    {[has_href |-> hh, href |-> IF hh THEN h ELSE <<>>,
      has_img |-> hi, img_src |-> IF hi THEN <<"img", ";", "s=1">> ELSE <<>>,
      has_article |-> ha, paragraphs |-> IF ha THEN ps ELSE <<>>] :
        hh \in BOOLEAN,
        h \in {<<>>, <<"/pl/oferta/dom", "-", "ID7">>, <<"/pl/oferta/dom">>},
        hi \in BOOLEAN, ha \in BOOLEAN,
        ps \in UNION {ParagraphSeqs(n) : n \in 0..MaxParagraphs}}

\* map(parse_json_offer, offers_json) as list.extend consumes it: the list, or
\* the first exception raised
RECURSIVE ParseJsonOffers(_)
ParseJsonOffers(offers_json) ==
    IF offers_json = <<>> THEN Ret(<<>>)
    ELSE LET h == parse_json_offer(Head(offers_json))
         IN  IF h.raised THEN h
             ELSE LET t == ParseJsonOffers(Tail(offers_json))
                  IN  IF t.raised THEN t ELSE Ret(<<h.value>> \o t.value)

\* the decoded bodies the autosuggest lookup can return
SuggestEntry(level) ==
    [level |-> level, name |-> <<"W">>,
     id |-> <<"m", ".", "w", ".", "s", ".", "7">>,
     text |-> <<"<strong>", "W", "</strong>", " ", "S", ", ", "M">>,
     district_id |-> <<"3", "9">>, region_id |-> <<"7">>,
     street_id |-> <<"7">>]

AutosuggestResponses ==
    {<<>>, <<SuggestEntry("CITY")>>, <<SuggestEntry("DISTRICT")>>,
     <<SuggestEntry("COUNTRY")>>}

\* what the count query can return: -1 on failure, else the count
ReportedTotals == {-1, 0, 2, HardCap + 1}

\* the arguments of a scrape call
ScrapeArgs ==
    [main_category : {<<"sprzedaz">>, <<"wynajem">>},
     detail_category : {<<"mieszkanie">>, <<"dom">>},
     region : {<<>>, <<"w">>},
     offers_per_page : {<<"1">>, <<"2">>},
     limit : {0, 1, 3, HardCap + 2},
     filters : {<<>>,
                <<[key |-> <<"priceMax">>, is_list |-> FALSE,
                   value |-> <<"9", "0", "0">>]>>,
                <<[key |-> <<"city">>, is_list |-> FALSE,
                   value |-> <<"warszawa">>]>>}]

\* the markup a listing page request can return for page p
OnePagePages(p) ==
    {[no_results |-> FALSE,
      nodes |-> <<[listing |-> TRUE,
                   links |-> [i \in 1..k |-> GoodFrag(10 * p + i)]]>>] :
        k \in 0..MaxLinks}

FetchedPages(p) ==
    OnePagePages(p)
    \cup
    {[no_results |-> TRUE, nodes |-> <<>>],
     [no_results |-> FALSE, nodes |-> <<>>],
     [no_results |-> FALSE,
      nodes |-> <<[listing |-> TRUE,
                   links |-> <<GoodFrag(10 * p + 1), NoArticleFrag>>]>>],
     [no_results |-> FALSE,
      nodes |-> <<[listing |-> TRUE, links |-> <<GoodFrag(10 * p + 8)>>],
                  [listing |-> TRUE, links |-> <<GoodFrag(10 * p + 1)>>]>>]}

\* an item of the JSON endpoint
GoodJsonOffer(n) ==
    [slug |-> <<"mieszkanie", "-", "ID", ToString(n)>>,
     id |-> n,
     images |-> [list |-> <<[large |-> "img-large"]>>],
     totalPrice |-> [currency |-> "PLN", value |-> Float(450000)],
     pricePerSquareMeter |-> [currency |-> "PLN", value |-> Float(9800)],
     roomsNumber |-> "TWO",
     areaInSquareMeters |-> Float(4550)]

NoImagesJsonOffer(n) ==
    [k \in DOMAIN GoodJsonOffer(n) \ {"images"} |-> GoodJsonOffer(n)[k]]

\* the items given to parse_json_offer: the price structures in zloty, in
\* another currency, null or missing, with and without image and area
JsonPrices(h) ==
    {None, [currency |-> "PLN", value |-> Float(h)],
     [currency |-> "EUR", value |-> Float(h)]}

JsonOffers ==
    {[k \in DOMAIN GoodJsonOffer(1) \ missing |->
         CASE k = "totalPrice" -> tp
           [] k = "pricePerSquareMeter" -> pp
           [] k = "images" -> im
           [] k = "areaInSquareMeters" -> ar
           [] OTHER -> GoodJsonOffer(1)[k]] :
        tp \in JsonPrices(450000), pp \in JsonPrices(9800),
        im \in {[list |-> <<>>], [list |-> <<[large |-> "img-large"]>>]},
        ar \in {Float(4550), Float(0)},
        missing \in SUBSET {"totalPrice", "pricePerSquareMeter", "images",
                            "areaInSquareMeters"}}

\* the decoded bodies the JSON endpoint can return for page p:
\* [has_items, items], has_items FALSE when pageProps.data.searchAds.items
\* is missing
FetchedJson(p) ==
    {[has_items |-> TRUE, items |-> [i \in 1..k |-> GoodJsonOffer(10 * p + i)]] :
        k \in 0..MaxLinks}
    \cup
    {[has_items |-> FALSE, items |-> <<>>],
     [has_items |-> TRUE,
      items |-> <<GoodJsonOffer(10 * p + 1), NoImagesJsonOffer(10 * p + 2)>>]}

\* the pages _get_json_identifier can be served
ShortPages ==
    {[has_script |-> TRUE,
      src |-> <<"", "/", "_next", "/", "static", "/", "BUILD1", "/",
                "_buildManifest.js">>],
     [has_script |-> TRUE,
      src |-> <<"", "/", "_next", "/", "static", "/", "BUILD2", "/",
                "_buildManifest.js">>],
     [has_script |-> TRUE, src |-> <<"_buildManifest.js">>],
     [has_script |-> FALSE, src |-> <<>>]}

\* the filter entries given to the URL builders
FilterEntry(key, is_list, value) == [key |-> key, is_list |-> is_list, value |-> value]

FilterEntries ==
    {FilterEntry(<<"priceMax">>, FALSE, <<"9", "0", "0">>),
     FilterEntry(<<"[", "private_business", "]">>, FALSE, <<"private">>),
     FilterEntry(<<"roomsNumber">>, TRUE, <<<<"TWO">>, <<"THREE">>>>),
     FilterEntry(<<"[", "filter_enum_media_types", "]", "[", "]">>, TRUE,
                 <<<<"internet">>, <<"phone">>>>),
     FilterEntry(<<"description_fragment">>, FALSE, <<"a", " ", "b">>),
     FilterEntry(<<"description">>, FALSE, <<"a", "&", "b", "=", "c">>),
     FilterEntry(<<"districtId">>, FALSE, <<"5">>)}

\* the keyword dicts of n entries, no key twice
RECURSIVE FilterSeqs(_)
FilterSeqs(n) ==
    IF n = 0 THEN {<<>>}
    ELSE {Append(p[1], p[2]) :
            p \in {q \in FilterSeqs(n - 1) \X FilterEntries :
                       ~HasKey(q[1], q[2].key)}}

FilterSets == UNION {FilterSeqs(n) : n \in 0..MaxFilters}

\* the region descriptors given to the URL builders: what the resolver
\* yields for a city, a district, a street and an unusable suggestion
UrlRegions ==
    {get_region_from_autosuggest(<<"w">>, <<SuggestEntry(level)>>).value :
        level \in {"CITY", "DISTRICT", "STREET", "COUNTRY"}}

UrlArgs ==
    [main_category : {<<"sprzedaz">>},
     detail_category : {<<"mieszkanie">>},
     region_data : UrlRegions,
     limit : {<<"2", "4">>},
     page : {<<"1">>, <<"2">>},
     filters : FilterSets]

\* the decoded bodies given to get_region_from_autosuggest
SuggestResponses ==
    AutosuggestResponses \cup {<<SuggestEntry("REGION")>>, <<SuggestEntry("STREET")>>}

\* the filters given to get_region_from_filters
RegionFilterSets ==
    {SelectSeq(<<FilterEntry(<<"priceMax">>, FALSE, <<"9", "0", "0">>),
                 FilterEntry(<<"city">>, FALSE, <<"warszawa">>),
                 FilterEntry(<<"district_id">>, FALSE, <<"3", "9">>),
                 FilterEntry(<<"voivodeship">>, FALSE, <<"mazowieckie">>),
                 FilterEntry(<<"street_id">>, FALSE, <<"7">>)>>,
               LAMBDA e : e.key \in keys) :
        keys \in SUBSET {<<"priceMax">>, <<"city">>, <<"district_id">>,
                         <<"voivodeship">>, <<"street_id">>}}

(***************************************************************************)
(* category.py: get_category and get_category_json, one action per         *)
(* straight-line stretch of the function.                                  *)
(***************************************************************************)
PyIntOf(s) == DigitsToInt(s)

RaisedAt(exc, callee) == [raised |-> TRUE, exc |-> exc, at |-> callee]

\* EffectiveLimit with the bug of taking a requested limit as it is
EffectiveLimit_Unclamped(count, limit_arg) ==
    IF limit_arg # 0 THEN limit_arg ELSE Min(HardCap, count)

\* lines 135-136 and 234-235: limit after "limit = min(...) if limit else ..."
EffectiveLimit(count, limit_arg) ==
    IF limit_arg # 0
    THEN Min(Min(HardCap, count), limit_arg)
    ELSE Min(HardCap, count)

\* WhileCondition with the bug of going on when the limit is just reached
WhileCondition_AtLimit ==
    \/ offers = 0
    \/ /\ offers <= limit
       /\ offers_parsed >= PyIntOf(args.offers_per_page)

\* lines 141 and 240: the condition of the while loop
WhileCondition ==
    \/ offers = 0
    \/ /\ offers < limit
       /\ offers_parsed >= PyIntOf(args.offers_per_page)

\* UnsuccessfulReturn with the bug of returning what was accumulated
UnsuccessfulReturn_Accumulated(accumulated) == Ret(accumulated)

\* lines 151-153: what get_category returns on an unsuccessful page, given
\* the offers accumulated so far
UnsuccessfulReturn(accumulated) == Ret(<<>>)

DriverVars == <<region_data, real_num_of_offers, limit, max_offers, offers, page, offers_parsed,
                parsed_content, content, fetched>>

\* lines 130-139 and 229-238
Start(fn) ==
    /\ call = fn
    /\ pc = "Init"
    /\ \E api_response \in AutosuggestResponses, count \in ReportedTotals :
          LET r == get_region_from_autosuggest(args.region, api_response)
          IN  IF r.raised
              THEN /\ pc' = "Raised"
                   /\ result' = RaisedAt(r.exc, "get_region_from_autosuggest")
                   /\ UNCHANGED DriverVars
                   /\ UNCHANGED count_queries
              ELSE /\ region_data' = r.value
                   /\ count_queries' =
                          Append(count_queries,
                                 CountAdsBody(args.main_category,
                                              args.detail_category, r.value,
                                              args.filters))
                   /\ real_num_of_offers' = count
                   /\ max_offers' = Min(HardCap, count)
                   /\ limit' = EffectiveLimit(count, args.limit)
                   /\ offers' = 0
                   /\ page' = 1
                   /\ offers_parsed' = PyIntOf(args.offers_per_page)
                   /\ parsed_content' = <<>>
                   /\ pc' = "Deciding"
                   /\ UNCHANGED <<content, fetched, result>>
    /\ lookups' = lookups + AutosuggestRequests(args.region)
    /\ resolutions' = resolutions + 1
    /\ UNCHANGED <<call, args, result_again, page_results>>

\* lines 141 and 240, and the return of lines 159 and 268
LoopTest(fn) ==
    /\ call = fn
    /\ pc = "Deciding"
    /\ IF WhileCondition
       THEN pc' = "Fetching" /\ UNCHANGED result
       ELSE pc' = "Done" /\ result' = Ret(parsed_content)
    /\ UNCHANGED <<call, args, lookups, result_again>>
    /\ UNCHANGED LogVars
    /\ UNCHANGED DriverVars

\* get_category, lines 142-150
GetCategoryFetch ==
    /\ call = "get_category"
    /\ pc = "Fetching"
    /\ page <= MaxPage
    /\ LET url == get_url(args.main_category, args.detail_category,
                          region_data, args.offers_per_page,
                          <<ToString(page)>>, args.filters)
       IN  IF url.raised
           THEN /\ pc' = "Raised"
                /\ result' = RaisedAt(url.exc, "get_url")
                /\ UNCHANGED <<content, fetched>>
           ELSE /\ \E markup \in FetchedPages(page) : content' = markup
                /\ fetched' = Append(fetched, page)
                /\ pc' = "Parsing"
                /\ UNCHANGED result
    /\ args' = [args EXCEPT !.filters =
                     CallerFilters(args.filters,
                                   FiltersWithRegion(region_data, args.filters))]
    /\ UNCHANGED <<call, region_data, real_num_of_offers, limit, max_offers,
                   offers, page, offers_parsed, parsed_content, lookups,
                   result_again>>
    /\ UNCHANGED LogVars

\* get_category, lines 151-158
GetCategoryParse ==
    /\ call = "get_category"
    /\ pc = "Parsing"
    /\ IF ~was_category_search_successful(content)
       THEN /\ pc' = "Failed"
            /\ result' = UnsuccessfulReturn(parsed_content)
            /\ UNCHANGED <<offers_parsed, parsed_content, offers, page,
                           page_results>>
       ELSE LET parsed_page == parse_category_content(content, FALSE)
            IN  IF parsed_page.raised
                THEN /\ pc' = "Raised"
                     /\ result' = RaisedAt(parsed_page.exc,
                                           "parse_category_content")
                     /\ UNCHANGED <<offers_parsed, parsed_content, offers,
                                    page, page_results>>
                ELSE /\ offers_parsed' = Len(parsed_page.value)
                     /\ page_results' = Append(page_results, parsed_page.value)
                     /\ parsed_content' = parsed_content \o parsed_page.value
                     /\ offers' = offers + Len(parsed_page.value)
                     /\ page' = page + 1
                     /\ pc' = "Deciding"
                     /\ UNCHANGED result
    /\ UNCHANGED <<call, args, region_data, real_num_of_offers, limit,
                   max_offers, content, fetched, lookups, result_again,
                   resolutions, count_queries>>

\* get_category_json, lines 241-249
GetCategoryJsonFetch ==
    /\ call = "get_category_json"
    /\ pc = "Fetching"
    /\ page <= MaxPage
    /\ \E short_page \in ShortPages :
          LET url == get_json_url(args.main_category, args.detail_category,
                                  region_data, args.offers_per_page,
                                  <<ToString(page)>>, args.filters, short_page)
          IN  IF url.raised
              THEN /\ pc' = "Raised"
                   /\ result' = RaisedAt(url.exc, "get_json_url")
                   /\ UNCHANGED <<content, fetched>>
              ELSE IF url.value = None
              THEN /\ pc' = "Raised"
                   /\ result' = RaisedAt("MissingSchema", "get_response_for_url")
                   /\ UNCHANGED <<content, fetched>>
              ELSE /\ \E json_res \in FetchedJson(page) : content' = json_res
                   /\ fetched' = Append(fetched, page)
                   /\ pc' = "Parsing"
                   /\ UNCHANGED result
    /\ args' = [args EXCEPT !.filters =
                     CallerFilters(args.filters,
                                   FiltersWithRegion(region_data, args.filters))]
    /\ UNCHANGED <<call, region_data, real_num_of_offers, limit, max_offers,
                   offers, page, offers_parsed, parsed_content, lookups,
                   result_again>>
    /\ UNCHANGED LogVars

\* get_category_json, lines 250-267
GetCategoryJsonParse ==
    /\ call = "get_category_json"
    /\ pc = "Parsing"
    /\ LET offers_json == IF content.has_items THEN content.items ELSE <<>>
           parsed_offers == ParseJsonOffers(offers_json)
       IN  IF parsed_offers.raised
           THEN /\ pc' = "Raised"
                /\ result' = RaisedAt(parsed_offers.exc, "parse_json_offer")
                /\ UNCHANGED <<offers_parsed, parsed_content, offers, page,
                               page_results>>
           ELSE /\ offers_parsed' = Len(offers_json)
                /\ page_results' = Append(page_results, parsed_offers.value)
                /\ parsed_content' = parsed_content \o parsed_offers.value
                /\ offers' = offers + Len(offers_json)
                /\ page' = page + 1
                /\ pc' = "Deciding"
                /\ UNCHANGED result
    /\ UNCHANGED <<call, args, region_data, real_num_of_offers, limit,
                   max_offers, content, fetched, lookups, result_again,
                   resolutions, count_queries>>

Init ==
    /\ call \in {"get_category", "get_category_json"}
    /\ pc = "Init"
    /\ args \in ScrapeArgs
    /\ region_data = EmptyDict
    /\ real_num_of_offers = 0
    /\ limit = 0
    /\ max_offers = 0
    /\ offers = 0
    /\ page = 0
    /\ offers_parsed = 0
    /\ parsed_content = <<>>
    /\ content = EmptyDict
    /\ fetched = <<>>
    /\ result = NoResult
    /\ lookups = 0
    /\ result_again = NoResult
    /\ resolutions = 0
    /\ count_queries = <<>>
    /\ page_results = <<>>

Next ==
    \/ Start("get_category")
    \/ LoopTest("get_category")
    \/ GetCategoryFetch
    \/ GetCategoryParse
    \/ Start("get_category_json")
    \/ LoopTest("get_category_json")
    \/ GetCategoryJsonFetch
    \/ GetCategoryJsonParse

Spec == Init /\ [][Next]_vars

(***************************************************************************)
(* The parsers as pure functions: a call of parse_category_content, of     *)
(* parse_category_offer or of parse_json_offer on an input drawn from the  *)
(* bounded sets.                                                           *)
(***************************************************************************)
Finish(outcome) ==
    /\ result' = outcome
    /\ pc' = IF outcome.raised THEN "Raised" ELSE "Done"
    /\ UNCHANGED <<call, args, lookups, result_again>>
    /\ UNCHANGED LogVars
    /\ UNCHANGED DriverVars

ParseCategoryContentCall ==
    /\ call = "parse_category_content"
    /\ pc = "Init"
    /\ Finish(parse_category_content(args.markup, args.get_promoted))

ParseCategoryOfferCall ==
    /\ call = "parse_category_offer"
    /\ pc = "Init"
    /\ Finish(parse_category_offer(args.offer_markup))

ParseJsonOfferCall ==
    /\ call = "parse_json_offer"
    /\ pc = "Init"
    /\ Finish(parse_json_offer(args.offer))

InitParser ==
    /\ \/ /\ call = "parse_category_content"
          /\ args \in [markup : ContentPages, get_promoted : BOOLEAN]
       \/ /\ call = "parse_category_offer"
          /\ args \in [offer_markup : OfferFrags]
       \/ /\ call = "parse_json_offer"
          /\ args \in [offer : JsonOffers]
    /\ pc = "Init"
    /\ region_data = EmptyDict
    /\ real_num_of_offers = 0
    /\ limit = 0
    /\ max_offers = 0
    /\ offers = 0
    /\ page = 0
    /\ offers_parsed = 0
    /\ parsed_content = <<>>
    /\ content = EmptyDict
    /\ fetched = <<>>
    /\ result = NoResult
    /\ lookups = 0
    /\ result_again = NoResult
    /\ resolutions = 0
    /\ count_queries = <<>>
    /\ page_results = <<>>

NextParser ==
    \/ ParseCategoryContentCall
    \/ ParseCategoryOfferCall
    \/ ParseJsonOfferCall

ParserSpec == InitParser /\ [][NextParser]_vars

(***************************************************************************)
(* utils.py as pure functions: a call of get_url, get_json_url,            *)
(* get_region_from_autosuggest or get_region_from_filters on inputs drawn  *)
(* from the bounded sets.  A URL builder is called a second time with the  *)
(* same arguments; the page _get_json_identifier fetches is the site's     *)
(* choice at each call.                                                    *)
(***************************************************************************)
GetUrlCall ==
    /\ call = "get_url"
    /\ pc = "Init"
    /\ Finish(get_url(args.main_category, args.detail_category,
                      args.region_data, args.limit, args.page, args.filters))

GetUrlCallAgain ==
    /\ call = "get_url"
    /\ pc \in {"Done", "Raised"}
    /\ result_again = NoResult
    /\ result_again' = get_url(args.main_category, args.detail_category,
                               args.region_data, args.limit, args.page,
                               args.filters)
    /\ UNCHANGED <<call, pc, args, result, lookups>>
    /\ UNCHANGED LogVars
    /\ UNCHANGED DriverVars

GetJsonUrlCall ==
    /\ call = "get_json_url"
    /\ pc = "Init"
    /\ \E short_page \in ShortPages :
          LET outcome == get_json_url(args.main_category, args.detail_category,
                                      args.region_data, args.limit, args.page,
                                      args.filters, short_page)
          IN  /\ content' = short_page
              /\ result' = outcome
              /\ pc' = IF outcome.raised THEN "Raised" ELSE "Done"
    /\ UNCHANGED <<call, args, region_data, real_num_of_offers, limit,
                   max_offers, offers, page, offers_parsed, parsed_content,
                   fetched, lookups, result_again>>
    /\ UNCHANGED LogVars

GetJsonUrlCallAgain ==
    /\ call = "get_json_url"
    /\ pc \in {"Done", "Raised"}
    /\ result_again = NoResult
    /\ \E short_page \in ShortPages :
          result_again' = get_json_url(args.main_category,
                                       args.detail_category, args.region_data,
                                       args.limit, args.page, args.filters,
                                       short_page)
    /\ UNCHANGED <<call, pc, args, result, lookups>>
    /\ UNCHANGED LogVars
    /\ UNCHANGED DriverVars

GetRegionFromAutosuggestCall ==
    /\ call = "get_region_from_autosuggest"
    /\ pc = "Init"
    /\ LET outcome == get_region_from_autosuggest(args.region_part,
                                                  args.api_response)
       IN  /\ result' = outcome
           /\ pc' = IF outcome.raised THEN "Raised" ELSE "Done"
    /\ lookups' = lookups + AutosuggestRequests(args.region_part)
    /\ UNCHANGED <<call, args, result_again>>
    /\ UNCHANGED LogVars
    /\ UNCHANGED DriverVars

GetRegionFromFiltersCall ==
    /\ call = "get_region_from_filters"
    /\ pc = "Init"
    /\ Finish(Ret(get_region_from_filters(args.filters)))

InitUtils ==
    /\ \/ /\ call \in {"get_url", "get_json_url"}
          /\ args \in UrlArgs
       \/ /\ call = "get_region_from_autosuggest"
          /\ args \in [region_part : {<<>>, <<"w">>},
                        api_response : SuggestResponses]
       \/ /\ call = "get_region_from_filters"
          /\ args \in [filters : RegionFilterSets]
    /\ pc = "Init"
    /\ region_data = EmptyDict
    /\ real_num_of_offers = 0
    /\ limit = 0
    /\ max_offers = 0
    /\ offers = 0
    /\ page = 0
    /\ offers_parsed = 0
    /\ parsed_content = <<>>
    /\ content = EmptyDict
    /\ fetched = <<>>
    /\ result = NoResult
    /\ lookups = 0
    /\ result_again = NoResult
    /\ resolutions = 0
    /\ count_queries = <<>>
    /\ page_results = <<>>

NextUtils ==
    \/ GetUrlCall
    \/ GetUrlCallAgain
    \/ GetJsonUrlCall
    \/ GetJsonUrlCallAgain
    \/ GetRegionFromAutosuggestCall
    \/ GetRegionFromFiltersCall

UtilsSpec == InitUtils /\ [][NextUtils]_vars

(***************************************************************************)
(* Properties.                                                             *)
(***************************************************************************)
Driver == call \in {"get_category", "get_category_json"}

PageSize == PyIntOf(args.offers_per_page)

\* a page has been fetched and parsed, and the loop has asked for another
FetchingAgain == Driver /\ pc = "Fetching" /\ fetched # <<>>

\* C1: in get_category a page with fewer offers than the page size is the
\* last one fetched: no fetch follows it, even when the accumulated count
\* is still below the effective limit.
C1_ShortPageStopsPagination ==
    (call = "get_category" /\ FetchingAgain /\ offers < limit) =>
        offers_parsed >= PageSize

\* C2: in get_category a fetched page that fails the success check, first or
\* later, ends the call at once with the empty list: the call is Failed, the
\* failing page is the last one fetched and nothing accumulated is returned.
C2_UnsuccessfulPageReturnsEmpty ==
    (call = "get_category" /\ fetched # <<>> /\ content.no_results) =>
        /\ pc \in {"Parsing", "Failed"}
        /\ Len(fetched) = page
        /\ pc = "Failed" => result = Ret(<<>>)

C2_Witness ==
    /\ call = "get_category"
    /\ pc = "Failed"
    /\ Len(fetched) >= 2
    /\ parsed_content # <<>>
    /\ result = Ret(<<>>)

\* C3: once computed, the effective limit of get_category and of
\* get_category_json is at most min(12000, reported total), for every
\* requested limit and every value of the count query.
C3_EffectiveLimitBounded ==
    (Driver /\ pc \in {"Deciding", "Fetching", "Parsing", "Done", "Failed"}) =>
        /\ limit <= HardCap
        /\ limit <= real_num_of_offers

C3_Witness ==
    /\ Driver
    /\ pc = "Done"
    /\ args.limit # 0
    /\ real_num_of_offers < args.limit
    /\ limit = real_num_of_offers

\* C4: after a parsed page the driver fetches another page if and only if
\* the accumulated count is below the effective limit and the page held at
\* least page-size offers; otherwise it is Done.
C4_ContinueIffBelowLimitAndFullPage ==
    /\ FetchingAgain => (offers < limit /\ offers_parsed >= PageSize)
    /\ (Driver /\ pc = "Done") =>
           ~(offers < limit /\ offers_parsed >= PageSize)

\* C5: a successfully fetched page that holds no offer ends pagination: no
\* further page is requested after it.
C5_EmptyPageEndsPagination ==
    FetchingAgain => offers_parsed > 0

\* C6: a scrape call does not end in an exception raised while the offers of
\* a fetched page are parsed (a page with a malformed item included).
C6_NoRaiseFromOfferParsing ==
    ~(/\ Driver
      /\ pc = "Raised"
      /\ result.at \in {"parse_category_content", "parse_json_offer"})

\* C7: a scrape call with the empty region string does not fail on the
\* missing path id of the empty region descriptor when the URL is built.
C7_EmptyRegionIsNationwide ==
    ~(/\ Driver
      /\ args.region = <<>>
      /\ pc = "Raised"
      /\ result.at \in {"get_url", "get_json_url"}
      /\ result.exc = "KeyError")

\* the links the page parser is to work on: the second container of two
\* unless promoted offers are asked for, then the whole page; the only
\* container; nothing when there is none
ListingLinks(markup, get_promoted) ==
    LET listings == SelectSeq(markup.nodes, LAMBDA n : n.listing)
    IN  IF Len(listings) = 0 THEN <<>>
        ELSE IF Len(listings) = 1 THEN listings[1].links
        ELSE IF get_promoted THEN LinksOf(markup.nodes)
        ELSE listings[2].links

ContentCallEnded == call = "parse_category_content" /\ pc # "Init"

\* C8: parse_category_content returns one record per listing-item link, a
\* malformed link does not abort the call, and the record of every
\* well-formed link is the one parse_category_offer gives for it.
C8_MalformedFragmentDoesNotAbort ==
    ContentCallEnded =>
        LET links == ListingLinks(args.markup, args.get_promoted)
        IN  /\ pc = "Done"
            /\ Len(result.value) = Len(links)
            /\ \A i \in 1..Len(links) :
                   WellFormed(links[i]) =>
                       result.value[i] = parse_category_offer(links[i]).value

\* C9: parse_category_offer on a fragment whose anchor has no href attribute
\* returns the empty record and does not raise.
C9_NoHrefGivesEmptyRecord ==
    (/\ call = "parse_category_offer"
     /\ pc # "Init"
     /\ ~args.offer_markup.has_href) => result = Ret(EmptyDict)

\* C10: for a page with exactly one listing container the outcome of
\* parse_category_content is, with and without promoted offers, that of
\* parsing the links of that container in document order.
C10_OneContainerIgnoresPromoted ==
    (/\ ContentCallEnded
     /\ Len(SelectSeq(args.markup.nodes, LAMBDA n : n.listing)) = 1) =>
        result = ParseOffers(
                     SelectSeq(args.markup.nodes, LAMBDA n : n.listing)[1].links)

C10_Witness ==
    /\ ContentCallEnded
    /\ pc = "Done"
    /\ args.get_promoted
    /\ Len(SelectSeq(args.markup.nodes, LAMBDA n : n.listing)) = 1
    /\ \E i \in 1..Len(args.markup.nodes) :
           ~args.markup.nodes[i].listing /\ args.markup.nodes[i].links # <<>>
    /\ Len(result.value) = MaxLinks

\* the listing containers of the page given to parse_category_content
Listings == SelectSeq(args.markup.nodes, LAMBDA n : n.listing)

\* C11: for a page with two listing containers parse_category_content
\* without promoted offers gives the offers of the second container only,
\* none of the first; with promoted offers it gives the offers of every
\* listing-item link of the whole page; a page with no listing container
\* gives the empty list.
C11_SecondContainerUnlessPromoted ==
    ContentCallEnded =>
        /\ Len(Listings) = 0 => result = Ret(<<>>)
        /\ (Len(Listings) = 2 /\ ~args.get_promoted) =>
               /\ result = ParseOffers(Listings[2].links)
               /\ pc = "Done" =>
                      \A i \in 1..Len(result.value),
                         j \in 1..Len(Listings[1].links) :
                          WellFormed(Listings[1].links[j]) =>
                              result.value[i] #
                                  parse_category_offer(Listings[1].links[j]).value
        /\ (Len(Listings) = 2 /\ args.get_promoted) =>
               result = ParseOffers(LinksOf(args.markup.nodes))

C11_Witness ==
    /\ ContentCallEnded
    /\ pc = "Done"
    /\ ~args.get_promoted
    /\ Len(Listings) = 2
    /\ Len(Listings[1].links) = MaxLinks
    /\ Len(Listings[2].links) = MaxLinks
    /\ Len(result.value) = MaxLinks

\* a URL builder has returned a URL
UrlBuilt ==
    /\ call \in {"get_url", "get_json_url"}
    /\ pc = "Done"
    /\ call = "get_json_url" => "str" \in DOMAIN result.value

BuiltUrl == IF call = "get_url" THEN result.value ELSE result.value.str

\* what follows the "?" of the URL
QueryString ==
    SubSeq(BuiltUrl, IndexOf(BuiltUrl, "?", 1) + 1, Len(BuiltUrl))

\* q holds the parameter text seg between two "&" (or the ends of q)
HasParameter(q, seg) ==
    \E p \in 1..Len(q) :
        /\ p + Len(seg) - 1 <= Len(q)
        /\ SubSeq(q, p, p + Len(seg) - 1) = seg
        /\ p = 1 \/ q[p - 1] = "&"
        /\ p + Len(seg) - 1 = Len(q) \/ q[p + Len(seg)] = "&"

\* a filter entry as the claim writes it: key=[v1,v2,...] for a list,
\* percent-encoded key, "=" and the value as it is for a scalar
AsWritten(entry) ==
    IF entry.is_list
    THEN entry.key \o <<"=", "[">> \o Join(<<",">>, entry.value) \o <<"]">>
    ELSE quote(entry.key) \o <<"=">> \o entry.value

\* the query string starts with the page size and page number parameters
StartsWithLimitAndPage ==
    LET head == <<"limit", "=">> \o args.limit \o <<"&", "page", "=">>
                \o args.page \o <<"&">>
    IN  /\ IndexOf(BuiltUrl, "?", 1) > 0
        /\ Len(QueryString) >= Len(head)
        /\ SubSeq(QueryString, 1, Len(head)) = head

\* get_url is given a region descriptor that carries the id the entry names
RegionSupplies(entry) ==
    /\ call = "get_url"
    /\ entry.key \in {<<"districtId">>, <<"streetId">>}
    /\ entry.key[1] \in DOMAIN args.region_data

\* C12 as stated: in the URL get_url or get_json_url builds, every list
\* entry of the filters passed in appears as key=[v1,v2,...] (values
\* comma-joined in input order, not escaped), every scalar entry as
\* key=value (key percent-encoded, value as it is), and the query string
\* starts with the page size and page number parameters.
C12_EveryEntryAsWritten ==
    UrlBuilt =>
        /\ StartsWithLimitAndPage
        /\ \A i \in 1..Len(args.filters) :
               HasParameter(QueryString, AsWritten(args.filters[i]))

\* C12 amended: as C12, except that in get_url an entry keyed districtId or
\* streetId carries the id of the region descriptor when the descriptor
\* has one, not the value passed in.
C12_EntriesAsWrittenUnlessRegionId ==
    UrlBuilt =>
        /\ StartsWithLimitAndPage
        /\ \A i \in 1..Len(args.filters) :
               IF RegionSupplies(args.filters[i])
               THEN HasParameter(QueryString,
                        args.filters[i].key \o <<"=">>
                        \o args.region_data[args.filters[i].key[1]])
               ELSE HasParameter(QueryString, AsWritten(args.filters[i]))

C12_Witness ==
    /\ UrlBuilt
    /\ call = "get_url"
    /\ "districtId" \in DOMAIN args.region_data
    /\ Len(args.filters) = MaxFilters
    /\ \E i \in 1..Len(args.filters) :
           args.filters[i].is_list /\ Len(args.filters[i].value) = 2
    /\ \E i \in 1..Len(args.filters) :
           /\ ~args.filters[i].is_list
           /\ quote(args.filters[i].key) # args.filters[i].key

\* the keys read back from the query string: it is split on "&", each
\* non-empty part on "=", and limit and page are left out
RecoveredKeys ==
    LET parts == Split(QueryString, "&")
    IN  {SplitFirst(parts[i], "=") : i \in {j \in 1..Len(parts) : parts[j] # <<>>}}
        \ {<<"limit">>, <<"page">>}

PassedKeys == {args.filters[i].key : i \in 1..Len(args.filters)}

GetUrlBuilt == call = "get_url" /\ pc = "Done"

\* C13 as stated: the keys read back from the query string of the URL
\* get_url builds are exactly the keys of the filters passed in.
C13_QueryKeysRoundTrip ==
    GetUrlBuilt => RecoveredKeys = PassedKeys

\* no "&" or "=" in a value or in the key of a list entry
NoSeparatorInside ==
    \A i \in 1..Len(args.filters) :
        LET e == args.filters[i]
            text == IF e.is_list THEN e.key \o Concat(e.value) ELSE e.value
        IN  \A k \in 1..Len(text) : text[k] \notin {"&", "="}

\* C13 amended: when no value (and no key of a list entry) holds "&" or "=",
\* the keys read back are the keys passed in, those of scalar entries in
\* percent-encoded form, together with districtId and streetId when the
\* region descriptor carries them.
C13_QueryKeysAreWrittenKeysAndRegionIds ==
    (GetUrlBuilt /\ NoSeparatorInside) =>
        RecoveredKeys =
            {IF args.filters[i].is_list THEN args.filters[i].key
             ELSE quote(args.filters[i].key) : i \in 1..Len(args.filters)}
            \cup
            {<<k>> : k \in {"districtId", "streetId"} \cap DOMAIN args.region_data}

C13_Witness ==
    /\ GetUrlBuilt
    /\ NoSeparatorInside
    /\ "streetId" \in DOMAIN args.region_data
    /\ Len(args.filters) = MaxFilters
    /\ \E i \in 1..Len(args.filters) :
           /\ ~args.filters[i].is_list
           /\ quote(args.filters[i].key) # args.filters[i].key
    /\ Cardinality(RecoveredKeys) = MaxFilters + 1

IdentifierMissing ==
    \/ ~content.has_script
    \/ IndexOf(content.src, "/", 1) = 0

\* C15: when the build identifier cannot be located get_json_url returns
\* None and does not raise.
C15_NoIdentifierGivesNone ==
    (/\ call = "get_json_url"
     /\ pc # "Init"
     /\ "id" \in DOMAIN args.region_data
     /\ IdentifierMissing) => result = Ret(None)

\* the autosuggest lookup was made and returned nothing usable: an empty
\* list, or a best entry whose level is none of the four known
NothingUsable ==
    /\ lookups = 1
    /\ \/ args.api_response = <<>>
       \/ args.api_response[1].level
              \notin {"CITY", "DISTRICT", "REGION", "STREET"}

\* C17: when the autosuggest lookup returns nothing usable
\* get_region_from_autosuggest returns the empty descriptor and does not
\* raise.
C17_NothingUsableGivesEmptyDescriptor ==
    (/\ call = "get_region_from_autosuggest"
     /\ pc # "Init"
     /\ NothingUsable) => result = Ret(EmptyDict)

\* the filters hold a region-identifying key
HasRegionKey(filters) == \E k \in REGION_DATA_KEYS : HasKey(filters, <<k>>)

\* C16: in a scrape call whose filters hold a region-identifying key (city,
\* voivodeship, district_id, street_id) no autosuggest lookup is made and
\* the region descriptor is the one built from those keys.
C16_RegionKeysSkipAutosuggest ==
    (Driver /\ pc # "Init" /\ HasRegionKey(args.filters)) =>
        /\ lookups = 0
        /\ pc # "Raised" =>
               region_data = get_region_from_filters(args.filters)

\* offer[key] is not a price in zloty: the structure is missing or null, or
\* its currency is not PLN
NoZlotyPrice(offer, key) ==
    IF key \notin DOMAIN offer THEN TRUE
    ELSE IF offer[key] = None THEN TRUE
    ELSE offer[key].currency # "PLN"

\* C18: parse_json_offer on an item whose totalPrice is missing, null or
\* not in PLN returns a record with price -1.0, and likewise price_per_m2
\* -1.0 for pricePerSquareMeter; it does not raise for such an item.
C18_NoZlotyPriceGivesSentinel ==
    (/\ call = "parse_json_offer"
     /\ pc # "Init"
     /\ "images" \in DOMAIN args.offer) =>
        /\ NoZlotyPrice(args.offer, "totalPrice") =>
               pc = "Done" /\ result.value.price = Float(-100)
        /\ NoZlotyPrice(args.offer, "pricePerSquareMeter") =>
               pc = "Done" /\ result.value.price_per_m2 = Float(-100)

\* C19: every non-empty record parse_category_offer or parse_json_offer
\* returns has the field image next to detail_url, offer_id, price,
\* price_int, size, rooms, price_per_m2 and calculated_per_m2.
C19_RecordHasImageField ==
    (/\ call \in {"parse_category_offer", "parse_json_offer"}
     /\ pc = "Done"
     /\ result.value # EmptyDict) =>
        {"image", "detail_url", "offer_id", "price", "price_int", "size",
         "rooms", "price_per_m2", "calculated_per_m2"}
            \subseteq DOMAIN result.value

\* C20: no step of a scrape call changes the filters the caller passed, and
\* once the region descriptor is resolved no step changes it: the ids
\* get_url adds go into a dict of its own.
C20_FiltersAndRegionUnchanged ==
    [][Driver =>
          /\ args' = args
          /\ pc # "Init" => region_data' = region_data]_vars

C20_Witness ==
    /\ Driver
    /\ Len(fetched) >= 2
    /\ "districtId" \in DOMAIN region_data
    /\ args.filters # <<>>
    /\ ~HasKey(args.filters, <<"districtId">>)

\* C21: the count query of a scrape call describes the search of its page
\* URLs: its transaction is RENT exactly when the main category is
\* "wynajem" (SELL otherwise) and its estate is the translation of the
\* detail category (mieszkanie -> FLAT, dom -> HOUSE, ...).
C21_CountQueryDescribesTheSearch ==
    (Driver /\ count_queries # <<>>) =>
        LET filter_attributes == count_queries[1].filterAttributes
        IN  /\ GetKey(filter_attributes, <<"transaction">>) =
                   (IF args.main_category = <<"wynajem">>
                    THEN <<"RENT">> ELSE <<"SELL">>)
            /\ GetKey(filter_attributes, <<"estate">>) =
                   _main_category_translate(args.detail_category, <<"FLAT">>)

\* the scrape call has ended: it returned or an exception left it
CallEnded == Driver /\ pc \in {"Done", "Failed", "Raised"}

\* C22: in a scrape call the region is resolved once and the count query
\* is sent once, both before the first page fetch; a call that has ended
\* has fetched at least one page; the pages fetched are 1, 2, ..., n in
\* this order, and a fetch starts only when every page fetched before it
\* has been parsed.
C22_ResolveCountThenPagesInOrder ==
    Driver =>
        /\ resolutions <= 1
        /\ Len(count_queries) <= 1
        /\ (fetched # <<>> \/ CallEnded) =>
               resolutions = 1 /\ Len(count_queries) = 1
        /\ CallEnded => Len(fetched) >= 1
        /\ \A i \in 1..Len(fetched) : fetched[i] = i
        /\ pc = "Fetching" => Len(page_results) = Len(fetched)

\* the part of C22 that holds of every call, ended by an exception or not
PagesInOrder ==
    Driver =>
        /\ resolutions <= 1
        /\ Len(count_queries) <= 1
        /\ fetched # <<>> => resolutions = 1 /\ Len(count_queries) = 1
        /\ (CallEnded /\ pc # "Raised") => Len(fetched) >= 1
        /\ \A i \in 1..Len(fetched) : fetched[i] = i
        /\ pc = "Fetching" => Len(page_results) = Len(fetched)

====
